---------------------------- MODULE Spec2Model ----------------------------
(***************************************************************************)
(* A model of the synapse simulation (quanta_dorsa):                       *)
(*   - src/cpp_simulation/synapse.{h,cpp}: Config, Synapse, Simulation     *)
(*   - src/cpp_simulation/synapse_sim.cpp: the configuration-driven main   *)
(*   - src/synapse_sim.cpp: the standalone main with positional arguments  *)
(*                                                                         *)
(* A C++ double is modelled as an IEEE-754 binary64 value: NaN, the two    *)
(* infinities, signed zeros and finite values s * m * 2^e whose mantissa m *)
(* is an arbitrary-precision natural number (TLC's integers are 32 bits    *)
(* wide), every operation rounded to nearest, ties to even.  Each          *)
(* arithmetic operation of the source is rounded on its own (no fused      *)
(* multiply-add).                                                          *)
(***************************************************************************)
EXTENDS Integers, Sequences, FiniteSets, TLC

(***************************************************************************)
(* Arbitrary-precision naturals: little-endian sequences of limbs in base  *)
(* 2^15, without leading zero limbs; <<>> is zero.                          *)
(***************************************************************************)
Base == 2 ^ 15

Min2(a, b) == IF a <= b THEN a ELSE b

Max2(a, b) == IF a >= b THEN a ELSE b

RECURSIVE BNorm(_)
BNorm(a) ==
    IF a = <<>> THEN <<>>
    ELSE IF a[Len(a)] = 0 THEN BNorm(SubSeq(a, 1, Len(a) - 1))
    ELSE a

BLimb(a, i) == IF i >= 1 /\ i <= Len(a) THEN a[i] ELSE 0

BFromInt(n) ==
    BNorm(<<n % Base, (n \div Base) % Base, n \div (Base * Base)>>)

RECURSIVE BAddC(_, _, _, _)
BAddC(a, b, i, c) ==
    IF i > Max2(Len(a), Len(b))
    THEN (IF c = 0 THEN <<>> ELSE <<c>>)
    ELSE LET s == BLimb(a, i) + BLimb(b, i) + c
         IN  <<s % Base>> \o BAddC(a, b, i + 1, s \div Base)

BAdd(a, b) == BAddC(a, b, 1, 0)

\* a - b for a >= b
RECURSIVE BSubC(_, _, _, _)
BSubC(a, b, i, c) ==
    IF i > Len(a) THEN <<>>
    ELSE LET s == BLimb(a, i) - BLimb(b, i) - c
         IN  IF s < 0 THEN <<s + Base>> \o BSubC(a, b, i + 1, 1)
             ELSE <<s>> \o BSubC(a, b, i + 1, 0)

BSub(a, b) == BNorm(BSubC(a, b, 1, 0))

\* -1, 0, 1 as a < b, a = b, a > b
RECURSIVE BCmpAt(_, _, _)
BCmpAt(a, b, i) ==
    IF i = 0 THEN 0
    ELSE IF a[i] < b[i] THEN -1
    ELSE IF a[i] > b[i] THEN 1
    ELSE BCmpAt(a, b, i - 1)

BCmp(a, b) ==
    IF Len(a) < Len(b) THEN -1
    ELSE IF Len(a) > Len(b) THEN 1
    ELSE BCmpAt(a, b, Len(a))

\* a * k for 0 <= k < Base
RECURSIVE BMulSmallC(_, _, _, _)
BMulSmallC(a, k, i, c) ==
    IF i > Len(a) THEN (IF c = 0 THEN <<>> ELSE <<c>>)
    ELSE LET s == a[i] * k + c
         IN  <<s % Base>> \o BMulSmallC(a, k, i + 1, s \div Base)

BMulSmall(a, k) == IF k = 0 THEN <<>> ELSE BMulSmallC(a, k, 1, 0)

BShlLimbs(a, q) == IF a = <<>> THEN <<>> ELSE [i \in 1..q |-> 0] \o a

RECURSIVE BMulFrom(_, _, _)
BMulFrom(a, b, j) ==
    IF j > Len(b) THEN <<>>
    ELSE BAdd(BShlLimbs(BMulSmall(a, b[j]), j - 1), BMulFrom(a, b, j + 1))

BMul(a, b) == BMulFrom(a, b, 1)

\* a * 2^k
BShl(a, k) == BShlLimbs(BMulSmall(a, 2 ^ (k % 15)), k \div 15)

\* floor(a / 2^k)
BShr(a, k) ==
    LET q == k \div 15
        r == k % 15
        n == Len(a) - q
    IN  IF n <= 0 THEN <<>>
        ELSE BNorm([i \in 1..n |->
                 (a[i + q] \div (2 ^ r))
                 + (BLimb(a, i + q + 1) % (2 ^ r)) * (2 ^ (15 - r))])

\* a mod 2^k
BLow(a, k) ==
    LET q == k \div 15
        r == k % 15
    IN  BNorm([i \in 1..Min2(Len(a), q + 1) |->
                 IF i <= q THEN a[i] ELSE a[i] % (2 ^ r)])

RECURSIVE IntBitLen(_)
IntBitLen(n) == IF n = 0 THEN 0 ELSE 1 + IntBitLen(n \div 2)

BBitLen(a) ==
    IF a = <<>> THEN 0 ELSE (Len(a) - 1) * 15 + IntBitLen(a[Len(a)])

BOdd(a) == a # <<>> /\ a[1] % 2 = 1

\* <<floor(a / d), a mod d>> for 0 < d < Base
RECURSIVE BDivSmallAt(_, _, _, _)
BDivSmallAt(a, d, i, r) ==
    IF i = 0 THEN <<<<>>, r>>
    ELSE LET cur  == r * Base + a[i]
             rest == BDivSmallAt(a, d, i - 1, cur % d)
         IN  <<rest[1] \o <<cur \div d>>, rest[2]>>

BDivSmall(a, d) ==
    LET qr == BDivSmallAt(a, d, Len(a), 0)
    IN  <<BNorm(qr[1]), qr[2]>>

(***************************************************************************)
(* IEEE-754 binary64.  A double is a record [k, s, m, e]: k is "nan",      *)
(* "inf" or "fin", s the sign bit, and a finite value is m * 2^e with a    *)
(* 53-bit mantissa (fewer bits when subnormal, e = ExpMin; none for zero). *)
(***************************************************************************)
MantBits == 53

ExpMin == -1074

ExpMax == 971

NaN == [k |-> "nan", s |-> 0, m |-> <<>>, e |-> 0]

Inf(s) == [k |-> "inf", s |-> s, m |-> <<>>, e |-> 0]

Zero(s) == [k |-> "fin", s |-> s, m |-> <<>>, e |-> 0]

Fin(s, m, e) == [k |-> "fin", s |-> s, m |-> m, e |-> e]

IsNaN(a) == a.k = "nan"

IsInf(a) == a.k = "inf"

IsZero(a) == a.k = "fin" /\ a.m = <<>>

IsFinite(a) == a.k = "fin"

\* The quotient q moved to its nearest integer: c is -1, 0, 1 as the
\* dropped remainder is below, at or above one half.
BRoundUp(q, c) ==
    IF c > 0 \/ (c = 0 /\ BOdd(q)) THEN BAdd(q, <<1>>) ELSE q

\* m / 2^k for k >= 1, to the nearest integer, ties to even
BShrRound(m, k) ==
    BRoundUp(BShr(m, k), BCmp(BLow(m, k), BShl(<<1>>, k - 1)))

\* (-1)^s * q * 2^e for a rounded q, which a carry out of the rounding may
\* leave one bit too long
RoundCarry(s, q, e) ==
    IF q = <<>> THEN Zero(s)
    ELSE IF BBitLen(q) > MantBits
    THEN (IF e + 1 > ExpMax THEN Inf(s) ELSE Fin(s, BShr(q, 1), e + 1))
    ELSE IF e > ExpMax THEN Inf(s)
    ELSE Fin(s, q, e)

\* (-1)^s * m * 2^e brought to the exponent e1 of its nearest double
RoundTo(s, m, e, e1) ==
    IF e1 <= e
    THEN (IF e1 > ExpMax THEN Inf(s) ELSE Fin(s, BShl(m, e - e1), e1))
    ELSE RoundCarry(s, BShrRound(m, e1 - e), e1)

\* The double nearest to (-1)^s * m * 2^e, ties to even; overflow gives
\* an infinity, underflow a subnormal or a zero.
RoundD(s, m, e) ==
    IF m = <<>> THEN Zero(s)
    ELSE RoundTo(s, m, e, Max2(e + BBitLen(m) - MantBits, ExpMin))

\* unary minus
FNeg(a) == IF IsNaN(a) THEN NaN ELSE [a EXCEPT !.s = 1 - a.s]

\* (-1)^sa * big * 2^e + (-1)^sb * small * 2^e, c comparing big to small
FAddMag(sa, big, sb, small, e, c) ==
    IF sa # sb /\ c = 0 THEN Zero(0)
    ELSE RoundD(IF sa = sb \/ c > 0 THEN sa ELSE sb,
                IF sa = sb THEN BAdd(big, small)
                ELSE IF c > 0 THEN BSub(big, small)
                ELSE BSub(small, big),
                e)

FAddAligned(sa, big, sb, small, e) ==
    FAddMag(sa, big, sb, small, e, BCmp(big, small))

\* The sum of two finite non-zero doubles, a.e >= b.e.  An operand more
\* than 64 binary places below the other only decides the rounding
\* direction, so it is replaced by one unit three places below a.
FAddOrdered(a, b) ==
    IF a.e - b.e > 64
    THEN FAddAligned(a.s, BShl(a.m, 3), b.s, <<1>>, a.e - 3)
    ELSE FAddAligned(a.s, BShl(a.m, a.e - b.e), b.s, b.m, b.e)

\* a + b
FAdd(a, b) ==
    IF IsNaN(a) \/ IsNaN(b) THEN NaN
    ELSE IF IsInf(a) /\ IsInf(b) THEN (IF a.s = b.s THEN a ELSE NaN)
    ELSE IF IsInf(a) THEN a
    ELSE IF IsInf(b) THEN b
    ELSE IF IsZero(a) /\ IsZero(b) THEN Zero(IF a.s = b.s THEN a.s ELSE 0)
    ELSE IF IsZero(a) THEN b
    ELSE IF IsZero(b) THEN a
    ELSE FAddOrdered(IF a.e >= b.e THEN a ELSE b, IF a.e >= b.e THEN b ELSE a)

\* a * b
FMul(a, b) ==
    IF IsNaN(a) \/ IsNaN(b) THEN NaN
    ELSE IF IsInf(a) \/ IsInf(b)
    THEN (IF IsZero(a) \/ IsZero(b) THEN NaN ELSE Inf((a.s + b.s) % 2))
    ELSE IF IsZero(a) \/ IsZero(b) THEN Zero((a.s + b.s) % 2)
    ELSE RoundD((a.s + b.s) % 2, BMul(a.m, b.m), a.e + b.e)

\* -1, 0, 1 as |a| < |b|, |a| = |b|, |a| > |b|, neither a NaN
MagCmp(a, b) ==
    IF IsInf(a) \/ IsInf(b)
    THEN (IF IsInf(a) /\ IsInf(b) THEN 0 ELSE IF IsInf(a) THEN 1 ELSE -1)
    ELSE IF IsZero(a) \/ IsZero(b)
    THEN (IF IsZero(a) /\ IsZero(b) THEN 0 ELSE IF IsZero(a) THEN -1 ELSE 1)
    ELSE IF a.e # b.e THEN (IF a.e < b.e THEN -1 ELSE 1)
    ELSE BCmp(a.m, b.m)

\* -1, 0, 1 as a < b, a == b, a > b, neither a NaN (-0.0 == 0.0)
FCmp(a, b) ==
    IF IsZero(a) /\ IsZero(b) THEN 0
    ELSE IF a.s # b.s THEN (IF a.s = 1 THEN -1 ELSE 1)
    ELSE IF a.s = 0 THEN MagCmp(a, b)
    ELSE MagCmp(b, a)

\* the comparison operators: each is false when an operand is a NaN
FLt(a, b) == ~IsNaN(a) /\ ~IsNaN(b) /\ FCmp(a, b) < 0

FGt(a, b) == FLt(b, a)

FLe(a, b) == ~IsNaN(a) /\ ~IsNaN(b) /\ FCmp(a, b) <= 0

FEq(a, b) == ~IsNaN(a) /\ ~IsNaN(b) /\ FCmp(a, b) = 0

\* The largest k in lo..hi with d * k <= r, given d * lo <= r
RECURSIVE BQuotLimb(_, _, _, _)
BQuotLimb(r, d, lo, hi) ==
    IF lo = hi THEN lo
    ELSE IF BCmp(BMulSmall(d, (lo + hi + 1) \div 2), r) <= 0
    THEN BQuotLimb(r, d, (lo + hi + 1) \div 2, hi)
    ELSE BQuotLimb(r, d, lo, (lo + hi + 1) \div 2 - 1)

\* Long division of the limbs n[i], ..., n[1] by d # 0 with the remainder r
\* carried in: <<quotient limbs, remainder>>
RECURSIVE BDivModAt(_, _, _, _)

BDivModJoin(q, rest) == <<rest[1] \o <<q>>, rest[2]>>

BDivModLimb(n, d, i, cur, q) ==
    BDivModJoin(q, BDivModAt(n, d, i - 1, BSub(cur, BMulSmall(d, q))))

BDivModAt(n, d, i, r) ==
    IF i = 0 THEN <<<<>>, r>>
    ELSE BDivModLimb(n, d, i, BNorm(<<n[i]>> \o r),
                     BQuotLimb(BNorm(<<n[i]>> \o r), d, 0, Base - 1))

BDivModNorm(qr) == <<BNorm(qr[1]), qr[2]>>

\* <<floor(n / d), n mod d>> for d # 0
BDivMod(n, d) == BDivModNorm(BDivModAt(n, d, Len(n), <<>>))

\* the value of a natural below 2^30
BToInt(a) == BLimb(a, 1) + Base * BLimb(a, 2)

\* (-1)^s * (qr[1] + a dropped remainder) * 2^e
FDivRound(s, qr, e) ==
    RoundD(s, BAdd(BShl(qr[1], 1), IF qr[2] = <<>> THEN <<>> ELSE <<1>>), e - 1)

FDivShifted(a, b, sh) ==
    FDivRound((a.s + b.s) % 2, BDivMod(BShl(a.m, sh), b.m), a.e - b.e - sh)

\* a / b
FDiv(a, b) ==
    IF IsNaN(a) \/ IsNaN(b) THEN NaN
    ELSE IF IsInf(a) THEN (IF IsInf(b) THEN NaN ELSE Inf((a.s + b.s) % 2))
    ELSE IF IsInf(b) THEN Zero((a.s + b.s) % 2)
    ELSE IF IsZero(b) THEN (IF IsZero(a) THEN NaN ELSE Inf((a.s + b.s) % 2))
    ELSE IF IsZero(a) THEN Zero((a.s + b.s) % 2)
    ELSE FDivShifted(a, b, 64 + Max2(0, BBitLen(b.m) - BBitLen(a.m)))

\* floor(a) as an integer, for a finite 0 <= a < 2^30
FloorInt(a) ==
    IF a.e >= 0 THEN BToInt(BShl(a.m, a.e)) ELSE BToInt(BShr(a.m, -a.e))

(***************************************************************************)
(* std::stod on a string, a sequence of one-character strings: strtod's    *)
(* longest-prefix conversion, then stod's two exceptions.  Positions are   *)
(* 0-based as in the source; str[i + 1] is the character at position i.    *)
(* Hexadecimal floats and the nan(...) payload are not modelled.           *)
(***************************************************************************)
DigitChars == <<"0", "1", "2", "3", "4", "5", "6", "7", "8", "9">>

IsDigit(c) == \E i \in 1..10 : DigitChars[i] = c

DigitVal(c) == (CHOOSE i \in 1..10 : DigitChars[i] = c) - 1

IsSpace(c) == c \in {" ", "\t", "\n", "\r"}

CharAt(str, i) == IF i >= 0 /\ i < Len(str) THEN str[i + 1] ELSE ""

Lower(c) ==
    CASE c = "I" -> "i" [] c = "N" -> "n" [] c = "F" -> "f" [] c = "A" -> "a"
      [] c = "T" -> "t" [] c = "Y" -> "y" [] c = "E" -> "e" [] OTHER -> c

\* whether str holds word (lower case) at position i, in either case
HasWordAt(str, i, word) ==
    \A j \in 1..Len(word) : Lower(CharAt(str, i + j - 1)) = word[j]

\* the first position from i on that holds no white space / no digit
RECURSIVE SkipSpace(_, _)
SkipSpace(str, i) ==
    IF IsSpace(CharAt(str, i)) THEN SkipSpace(str, i + 1) ELSE i

RECURSIVE SkipDigits(_, _)
SkipDigits(str, i) ==
    IF IsDigit(CharAt(str, i)) THEN SkipDigits(str, i + 1) ELSE i

\* the natural number written by the digits among positions i .. j-1
RECURSIVE DigitsBig(_, _, _, _)
DigitsBig(str, i, j, acc) ==
    IF i >= j THEN acc
    ELSE IF IsDigit(CharAt(str, i))
    THEN DigitsBig(str, i + 1, j,
                   BAdd(BMulSmall(acc, 10), BFromInt(DigitVal(CharAt(str, i)))))
    ELSE DigitsBig(str, i + 1, j, acc)

\* a decimal exponent's digits as an integer, saturated (beyond any double)
RECURSIVE DigitsInt(_, _, _, _)
DigitsInt(str, i, j, acc) ==
    IF i >= j THEN acc
    ELSE DigitsInt(str, i + 1, j,
                   Min2(100000, acc * 10 + DigitVal(CharAt(str, i))))

\* a * 10^p, four decimal places at a time
RECURSIVE BMulPow10(_, _)
BMulPow10(a, p) ==
    IF p = 0 \/ a = <<>> THEN a
    ELSE IF p >= 4 THEN BMulPow10(BMulSmall(a, 10000), p - 4)
    ELSE BMulPow10(BMulSmall(a, 10), p - 1)

\* <<floor(a / 10^j), 1 if a remainder was dropped else 0>>
RECURSIVE BDivPow10(_, _, _)
BDivPow10(a, j, sticky) ==
    IF j = 0 \/ (a = <<>> /\ sticky = 1) THEN <<a, sticky>>
    ELSE LET d  == IF j >= 4 THEN 10000 ELSE 10
             qr == BDivSmall(a, d)
         IN  BDivPow10(qr[1], IF j >= 4 THEN j - 4 ELSE j - 1,
                       IF qr[2] # 0 THEN 1 ELSE sticky)

\* The double nearest to (-1)^s * n * 10^p.  From 10^311 on the value
\* overflows, and n * 10^p underflows to zero once it is below 10^-330
\* (n has at most 5 decimal digits per limb).
\* (-1)^s * (qs[1] + a dropped remainder) * 2^(-sh): the remainder becomes a
\* sticky bit below the quotient
DecimalQuotient(s, qs, sh) ==
    RoundD(s, BAdd(BShl(qs[1], 1), BFromInt(qs[2])), -sh - 1)

DecimalToDouble(s, n, p) ==
    IF n = <<>> THEN Zero(s)
    ELSE IF p > 310 THEN Inf(s)
    ELSE IF p < -330 - 5 * Len(n) THEN Zero(s)
    ELSE IF p >= 0 THEN RoundD(s, BMulPow10(n, p), 0)
    ELSE DecimalQuotient(s, BDivPow10(BShl(n, 4 * (-p) + 60), -p, 0),
                         4 * (-p) + 60)

\* strtod's result: [conv |-> whether a conversion was performed, val |-> the
\* value, end |-> the position after the last character used, range |->
\* ERANGE], here for the value v of the digits n read up to position end
StrtodResult(n, v, end) ==
    [conv |-> TRUE, val |-> v, end |-> end,
     range |-> IsInf(v) \/ (n # <<>> /\ (IsZero(v) \/ BBitLen(v.m) < MantBits))]

\* the exponent part: "e" at iM, its digits among positions i4 .. i5-1; it
\* is used only when it has a digit
UseExp(str, iM, i4, i5) == Lower(CharAt(str, iM)) = "e" /\ i5 > i4

StrtodExp(str, s, n, nFrc, iM, i4, i5) ==
    StrtodResult(n,
        DecimalToDouble(s, n,
            (IF UseExp(str, iM, i4, i5)
             THEN (IF CharAt(str, iM + 1) = "-" THEN -1 ELSE 1)
                  * DigitsInt(str, i4, i5, 0)
             ELSE 0) - nFrc),
        IF UseExp(str, iM, i4, i5) THEN i5 ELSE iM)

\* the digits: the integer part at i1 .. i2-1, the fraction up to i3-1
StrtodDigits(str, s, i1, i2, i3, i4) ==
    IF (i2 - i1) + (IF i3 > i2 THEN i3 - (i2 + 1) ELSE 0) = 0
    THEN [conv |-> FALSE, val |-> Zero(0), end |-> 0, range |-> FALSE]
    ELSE StrtodExp(str, s, DigitsBig(str, i1, i3, <<>>),
                   IF i3 > i2 THEN i3 - (i2 + 1) ELSE 0, i3, i4,
                   SkipDigits(str, i4))

StrtodInt(str, s, i1, i2, i3) ==
    StrtodDigits(str, s, i1, i2, i3,
                 IF CharAt(str, i3 + 1) \in {"+", "-"} THEN i3 + 2 ELSE i3 + 1)

StrtodNumber(str, s, i1, i2) ==
    StrtodInt(str, s, i1, i2,
              IF CharAt(str, i2) = "." THEN SkipDigits(str, i2 + 1) ELSE i2)

\* after the sign s: "inf", "infinity", "nan" in either case, or a number
StrtodSigned(str, s, i1) ==
    IF HasWordAt(str, i1, <<"i", "n", "f">>)
    THEN [conv |-> TRUE, val |-> Inf(s), range |-> FALSE,
          end |-> IF HasWordAt(str, i1, <<"i", "n", "f", "i", "n", "i", "t", "y">>)
                  THEN i1 + 8 ELSE i1 + 3]
    ELSE IF HasWordAt(str, i1, <<"n", "a", "n">>)
    THEN [conv |-> TRUE, val |-> NaN, range |-> FALSE, end |-> i1 + 3]
    ELSE StrtodNumber(str, s, i1, SkipDigits(str, i1))

StrtodFrom(str, i0) ==
    StrtodSigned(str, IF CharAt(str, i0) = "-" THEN 1 ELSE 0,
                 IF CharAt(str, i0) \in {"+", "-"} THEN i0 + 1 ELSE i0)

Strtod(str) == StrtodFrom(str, SkipSpace(str, 0))

\* stod's two exceptions on strtod's result r
StodOf(r) ==
    IF ~r.conv THEN [status |-> "invalid_argument", val |-> Zero(0), end |-> 0]
    ELSE IF r.range THEN [status |-> "out_of_range", val |-> r.val, end |-> r.end]
    ELSE [status |-> "ok", val |-> r.val, end |-> r.end]

\* std::stod: the value, or the exception it throws
Stod(str) == StodOf(Strtod(str))

(***************************************************************************)
(* Config (synapse.cpp): the flat key/value parser and the typed getters.  *)
(* A std::string is a sequence of one-character strings, a position is     *)
(* 0-based, and std::string::npos is Npos.                                 *)
(***************************************************************************)
Npos == -1

WhiteSpace == {" ", "\t", "\r", "\n"}

\* content.find(c, pos)
Find(content, c, pos) ==
    LET hits == {i \in Max2(pos, 0)..(Len(content) - 1) : content[i + 1] = c}
    IN  IF hits = {} THEN Npos ELSE CHOOSE i \in hits : \A j \in hits : i <= j

\* content.find_first_of(set, pos)
FindFirstOf(content, set, pos) ==
    LET hits == {i \in Max2(pos, 0)..(Len(content) - 1) : content[i + 1] \in set}
    IN  IF hits = {} THEN Npos ELSE CHOOSE i \in hits : \A j \in hits : i <= j

\* content.find_first_not_of(set, pos)
FindFirstNotOf(content, set, pos) ==
    LET hits == {i \in Max2(pos, 0)..(Len(content) - 1) : content[i + 1] \notin set}
    IN  IF hits = {} THEN Npos ELSE CHOOSE i \in hits : \A j \in hits : i <= j

\* str.find_last_not_of(set)
FindLastNotOf(str, set) ==
    LET hits == {i \in 0..(Len(str) - 1) : str[i + 1] \notin set}
    IN  IF hits = {} THEN Npos ELSE CHOOSE i \in hits : \A j \in hits : i >= j

\* str.substr(start, count), start <= size
Substr(str, start, count) ==
    SubSeq(str, start + 1, Min2(start + count, Len(str)))

\* data[key] = value
MapPut(data, key, value) ==
    [k \in DOMAIN data \cup {key} |-> IF k = key THEN value ELSE data[k]]

\* One pass of the loop of Config::parse from position pos on, and the
\* passes after it: the map once the loop breaks.
RECURSIVE ParseFrom(_, _, _)

\* raw_value.substr(0, raw_value.find_last_not_of(" \t\r\n") + 1)
TrimmedValue(raw_value) ==
    Substr(raw_value, 0, FindLastNotOf(raw_value, WhiteSpace) + 1)

\* the numeric or boolean branch
ParseBareValue(content, data, key, value_start, value_end) ==
    IF value_end = Npos THEN data
    ELSE ParseFrom(content, value_end,
             MapPut(data, key,
                 TrimmedValue(Substr(content, value_start, value_end - value_start))))

\* the string branch: the value keeps its quotes
ParseStringValue(content, data, key, value_start, value_end) ==
    IF value_end = Npos THEN data
    ELSE ParseFrom(content, value_end + 1,
             MapPut(data, key,
                 Substr(content, value_start, value_end - value_start + 1)))

ParseValue(content, data, key, value_start) ==
    IF value_start = Npos THEN data
    ELSE IF content[value_start + 1] = "\""
    THEN ParseStringValue(content, data, key, value_start,
                          Find(content, "\"", value_start + 1))
    ELSE ParseBareValue(content, data, key, value_start,
                        FindFirstOf(content, {",", "}", "\n", "\r"}, value_start))

ParseColon(content, data, key, colon_pos) ==
    IF colon_pos = Npos THEN data
    ELSE ParseValue(content, data, key,
                    FindFirstNotOf(content, WhiteSpace, colon_pos + 1))

ParseKeyEnd(content, data, key_start, key_end) ==
    IF key_end = Npos THEN data
    ELSE ParseColon(content, data,
                    Substr(content, key_start + 1, key_end - key_start - 1),
                    Find(content, ":", key_end))

ParseKey(content, data, key_start) ==
    IF key_start = Npos THEN data
    ELSE ParseKeyEnd(content, data, key_start, Find(content, "\"", key_start + 1))

ParseFrom(content, pos, data) == ParseKey(content, data, Find(content, "\"", pos))

\* Config::parse on a file that could be opened
ConfigParse(content) == ParseFrom(content, 0, <<>>)

\* The outcome of Config::get_double: the value, or the message of the
\* handler that ends the process.  data.at(key) and std::stod both throw
\* std::out_of_range, which the first handler catches.
GetDoubleOf(key, r) ==
    IF r.status = "out_of_range"
    THEN [ok |-> FALSE, val |-> Zero(0), err |-> "not found", key |-> key]
    ELSE IF r.status = "invalid_argument"
    THEN [ok |-> FALSE, val |-> Zero(0), err |-> "invalid numeric value",
          key |-> key]
    ELSE [ok |-> TRUE, val |-> r.val, err |-> "", key |-> key]

GetDouble(data, key) ==
    IF key \notin DOMAIN data
    THEN [ok |-> FALSE, val |-> Zero(0), err |-> "not found", key |-> key]
    ELSE GetDoubleOf(key, Stod(data[key]))

\* The outcome of Config::get_string: the value without its quotes
GetString(data, key) ==
    IF key \notin DOMAIN data
    THEN [ok |-> FALSE, val |-> <<>>, err |-> "not found", key |-> key]
    ELSE LET value == data[key]
         IN  [ok  |-> TRUE, err |-> "", key |-> key,
              val |-> IF Len(value) >= 2 /\ value[1] = "\""
                         /\ value[Len(value)] = "\""
                      THEN Substr(value, 1, Len(value) - 2)
                      ELSE value]

(***************************************************************************)
(* The floating-point literals of the sources, converted as the compiler   *)
(* converts them (the same decimal-to-double conversion as strtod).        *)
(***************************************************************************)
Lit(str) == Strtod(str).val

D_0_0 == Lit(<<"0", ".", "0">>)

D_1_0 == Lit(<<"1", ".", "0">>)

D_0_5 == Lit(<<"0", ".", "5">>)

D_0_7 == Lit(<<"0", ".", "7">>)

D_0_3 == Lit(<<"0", ".", "3">>)

D_0_9 == Lit(<<"0", ".", "9">>)

D_0_1 == Lit(<<"0", ".", "1">>)

D_10_0 == Lit(<<"1", "0", ".", "0">>)

D_0_01 == Lit(<<"0", ".", "0", "1">>)

(***************************************************************************)
(* Synapse (synapse.cpp) and the inlined update of the standalone main.    *)
(***************************************************************************)
\* Two faulty variants of dw: one that forgets post_activity, one that
\* adds the decay term instead of subtracting it.
DeltaW_NoPost(weight, pre_activity, post_activity, learning_rate, decay_rate, dt) ==
    FMul(FAdd(FMul(FNeg(decay_rate), weight), FMul(learning_rate, pre_activity)), dt)

DeltaW_PlusDecay(weight, pre_activity, post_activity, learning_rate, decay_rate, dt) ==
    FMul(FAdd(FMul(decay_rate, weight),
              FMul(FMul(learning_rate, pre_activity), post_activity)),
         dt)

\* Synapse::update: the new value of weight
\* double dw = (-decay_rate * weight
\*              + learning_rate * pre_activity * post_activity) * dt
DeltaW(weight, pre_activity, post_activity, learning_rate, decay_rate, dt) ==
    FMul(FAdd(FMul(FNeg(decay_rate), weight),
              FMul(FMul(learning_rate, pre_activity), post_activity)),
         dt)

\* if (weight > 1.0) weight = 1.0
CapAtOne(weight) == IF FGt(weight, D_1_0) THEN D_1_0 ELSE weight

\* a faulty variant of the lower clamp: the test is left out
RaiseToZero_Id(weight) == weight

\* if (weight < 0.0) weight = 0.0
RaiseToZero(weight) == IF FLt(weight, D_0_0) THEN D_0_0 ELSE weight

Synapse_update(weight, pre_activity, post_activity, learning_rate, decay_rate, dt) ==
    RaiseToZero(CapAtOne(
        FAdd(weight,
             DeltaW(weight, pre_activity, post_activity, learning_rate, decay_rate, dt))))

\* std::clamp(v, lo, hi): (v < lo) ? lo : (hi < v) ? hi : v
StdClamp(v, lo, hi) == IF FLt(v, lo) THEN lo ELSE IF FLt(hi, v) THEN hi ELSE v

\* the update inlined in the standalone main: the new synaptic_weight
Main_update(synaptic_weight, pre_activity, post_activity, learning_rate, decay_rate, DT) ==
    StdClamp(FAdd(synaptic_weight,
                  DeltaW(synaptic_weight, pre_activity, post_activity,
                         learning_rate, decay_rate, DT)),
             D_0_0, D_1_0)

(***************************************************************************)
(* The random source.  std::mt19937 seeded from std::random_device is an   *)
(* arbitrary stream of uniform values in [0, 1): here a cyclic tape of     *)
(* TapeLen values, each at or on either side of one of the thresholds.     *)
(***************************************************************************)
TapeLen == 2

DrawValues == {D_0_3, D_0_7, D_0_9, Lit(<<"0", ".", "9", "5">>)}

Tapes == [1..TapeLen -> DrawValues]

\* the value dis(gen) returns once pos values were drawn
Draw(gen, pos) == gen[(pos % Len(gen)) + 1]

\* a faulty variant of the sample: always two draws, post decided by the
\* second one alone
GenerateActivity_TwoDraws(gen, pos) ==
    LET u1  == Draw(gen, pos)
        pre == IF FGt(u1, D_0_7) THEN D_1_0 ELSE D_0_0
        u2  == Draw(gen, pos + 1)
    IN  [pre |-> pre,
         post |-> IF FGt(u2, IF FGt(pre, D_0_5) THEN D_0_3 ELSE D_0_9)
                  THEN D_1_0 ELSE D_0_0,
         u |-> <<u1, u2>>]

\* One step's activity sample, as both loops compute it: the pair, and the
\* sequence u of the values drawn for it, in order.  The conditional
\* expression draws a second value only when pre fired, and falls through
\* to its else branch, which draws again, whenever its condition is false.
GenerateActivity(gen, pos) ==
    LET u1  == Draw(gen, pos)
        pre == IF FGt(u1, D_0_7) THEN D_1_0 ELSE D_0_0
        u2  == Draw(gen, pos + 1)
        u3  == Draw(gen, pos + 2)
    IN  IF FGt(pre, D_0_5)
        THEN IF FGt(u2, D_0_3)
             THEN [pre |-> pre, post |-> D_1_0, u |-> <<u1, u2>>]
             ELSE [pre |-> pre, post |-> IF FGt(u3, D_0_9) THEN D_1_0 ELSE D_0_0,
                   u |-> <<u1, u2, u3>>]
        ELSE [pre |-> pre, post |-> IF FGt(u2, D_0_9) THEN D_1_0 ELSE D_0_0,
              u |-> <<u1, u2>>]

(***************************************************************************)
(* The inputs: the command line, and the configuration file as a sequence  *)
(* of <<key, value text>> entries written out as a flat JSON object.       *)
(***************************************************************************)
SimDurationKey == <<"s", "i", "m", "_", "d", "u", "r", "a", "t", "i", "o", "n">>

DtKey == <<"d", "t">>

LearningRateKey == <<"l", "e", "a", "r", "n", "i", "n", "g", "_", "r", "a", "t", "e">>

DecayRateKey == <<"d", "e", "c", "a", "y", "_", "r", "a", "t", "e">>

InitialWeightKey == <<"i", "n", "i", "t", "i", "a", "l", "_", "w", "e", "i", "g", "h", "t">>

RegionKey == <<"r", "e", "g", "i", "o", "n">>

NumericKeys ==
    <<SimDurationKey, DtKey, LearningRateKey, DecayRateKey, InitialWeightKey>>

T_1_0 == <<"1", ".", "0">>

T_0_1 == <<"0", ".", "1">>

T_0_3 == <<"0", ".", "3">>

T_0_25 == <<"0", ".", "2", "5">>

T_0_5 == <<"0", ".", "5">>

T_0_01 == <<"0", ".", "0", "1">>

T_0 == <<"0">>

T_m1 == <<"-", "1">>

T_m0_1 == <<"-", "0", ".", "1">>

T_nan == <<"n", "a", "n">>

T_inf == <<"i", "n", "f">>

T_5_0 == <<"5", ".", "0">>

T_m0_5 == <<"-", "0", ".", "5">>

T_0_03 == <<"0", ".", "0", "3">>

T_0_025 == <<"0", ".", "0", "2", "5">>

T_abc == <<"a", "b", "c">>

T_0_5abc == <<"0", ".", "5", "a", "b", "c">>

T_1e999 == <<"1", "e", "9", "9", "9">>

T_quoted == <<"\"", "0", ".", "5", "\"">>

T_region == <<"\"", "c", "t", "x", "\"">>

T_path == <<"c", "o", "n", "f", "i", "g", ".", "j", "s", "o", "n">>

T_empty == <<>>

\* the configuration file's text
RECURSIVE FileBody(_, _)
FileBody(entries, i) ==
    IF i > Len(entries) THEN <<>>
    ELSE <<" ", " ", "\"">> \o entries[i][1] \o <<"\"", ":", " ">> \o entries[i][2]
         \o (IF i < Len(entries) THEN <<",">> ELSE <<>>) \o <<"\n">>
         \o FileBody(entries, i + 1)

FileContent(entries) == <<"{", "\n">> \o FileBody(entries, 1) \o <<"}", "\n">>

CfgEntries(duration, step, rate, decay, initial) ==
    << <<SimDurationKey, duration>>, <<DtKey, step>>, <<LearningRateKey, rate>>,
       <<DecayRateKey, decay>>, <<InitialWeightKey, initial>>,
       <<RegionKey, T_region>> >>

\* <<sim_duration, dt>> and <<learning_rate, decay_rate, initial_weight>>
TimeCases ==
    { <<T_1_0, T_0_1>>, <<T_0_3, T_0_1>>, <<T_0_25, T_0_1>>, <<T_0_5, T_0_25>>,
      <<T_0_01, T_0_01>>, <<T_1_0, T_1_0>>, <<T_0, T_0_1>>, <<T_m1, T_0_1>>,
      <<T_0_3, T_0>>, <<T_0_3, T_m0_1>>, <<T_0_3, T_nan>>, <<T_nan, T_0_1>>,
      <<T_inf, T_0_1>>, <<T_0_3, T_inf>>, <<T_m1, T_m0_1>>, <<T_0, T_0>> }

MainTimes == { <<T_0_3, T_0_1>>, <<T_0_01, T_0_01>>, <<T_1_0, T_1_0>> }

RuleCases ==
    ({T_0} \X {T_0, T_0_1, T_1_0} \X {T_0_5, T_1_0, T_0, T_5_0, T_m1})
    \cup { <<T_0_5, T_0_1, T_0_5>>, <<T_5_0, T_0_1, T_0_5>>, <<T_m0_5, T_0_1, T_0_5>>,
           <<T_0_5, T_m0_1, T_0_5>>, <<T_nan, T_0_1, T_0_5>>, <<T_0_5, T_nan, T_0_5>>,
           <<T_0_5, T_0_1, T_nan>>, <<T_0, T_inf, T_0_5>>, <<T_0_5, T_0_1, T_5_0>>,
           <<T_0_5, T_0_1, T_m1>> }

MainRules == { <<T_0_5, T_0_1, T_0_5>>, <<T_0, T_1_0, T_1_0>> }

Scenarios == (TimeCases \X MainRules) \cup (MainTimes \X RuleCases)

DefaultEntries == CfgEntries(T_0_3, T_0_1, T_0_5, T_0_1, T_0_5)

BadTexts == {T_abc, T_0_5abc, T_1e999, T_empty, T_quoted}

DropEntry(entries, i) ==
    SubSeq(entries, 1, i - 1) \o SubSeq(entries, i + 1, Len(entries))

CfgFiles ==
    { [exists |-> FALSE, entries |-> <<>>] }
    \cup { [exists |-> TRUE, entries |-> CfgEntries(c[1][1], c[1][2], c[2][1], c[2][2], c[2][3])]
           : c \in Scenarios }
    \cup { [exists |-> TRUE, entries |-> DropEntry(DefaultEntries, i)] : i \in 1..6 }
    \cup { [exists |-> TRUE, entries |-> [DefaultEntries EXCEPT ![i][2] = b]]
           : i \in 1..5, b \in BadTexts }

\* the arguments after argv[0]
CfgArgvs == { <<>>, <<T_path>>, <<T_path, T_path>> }

StdArgvs ==
    { <<>>, <<T_0_5>>, <<T_0_5, T_0_1>>, <<T_0_5, T_0_1, T_0_03, T_0_1>> }
    \cup ({T_0_5, T_0, T_nan} \X {T_0_1, T_0, T_1_0} \X {T_0_03, T_0_025, T_0, T_m1})
    \cup ({T_0_5} \X {T_0_1} \X {T_nan, T_inf, T_0_5abc, T_abc, T_1e999, T_empty})
    \cup ({T_abc, T_0_5abc, T_1e999, T_empty} \X {T_0_1} \X {T_0_03})
    \cup ({T_0_5} \X {T_abc, T_0_5abc, T_1e999, T_inf} \X {T_0_03})

(***************************************************************************)
(* The state of one process.                                               *)
(***************************************************************************)
VARIABLES
    prog,           \* "config": cpp_simulation/synapse_sim.cpp; "standalone":
                    \* synapse_sim.cpp; "client": any caller of class Simulation
    argv,           \* the arguments after argv[0]
    cfgFile,        \* the configuration file: whether it opens, its entries
    pc,             \* the control location
    data,           \* Config::data
    sim_duration,   \* Simulation::sim_duration / main's sim_duration
    dt,             \* Simulation::dt / main's DT
    learning_rate,
    decay_rate,
    region,
    initial_weight, \* main's initial_weight, the weight before the first step
    weight,         \* Synapse::weight / main's synaptic_weight
    results,        \* the std::vector<SimData>
    t,              \* the loop variable
    gen,            \* the random stream of the current run
    genPos,         \* how many values the current run has drawn from gen
    sample,         \* the activity sample of the last iteration
    steps,          \* how many loop iterations have run (all runs)
    runs,           \* how many times the loop was entered
    stderr,         \* what was written to std::cerr
    stdout,         \* what was written to std::cout
    exitCode,       \* the exit status, Running until the process ends
    outFile         \* the output file: "untouched", "failed" (open failed)
                    \* or "written", the number of data rows written and
                    \* how many times it was opened

env == <<prog, argv, cfgFile>>

params == <<sim_duration, dt, learning_rate, decay_rate, initial_weight, region>>

loopVars == <<results, t, gen, genPos, sample, steps, runs>>

io == <<stderr, stdout, exitCode, outFile>>

vars == <<env, pc, data, params, weight, loopVars, io>>

\* the loop is cut off after MaxRows rows; a client calls run() MaxRuns times
MaxRows == 12

MaxRuns == 2

\* and save_results() MaxSaves times
MaxSaves == 1

Running == -1

\* the status of a process ended by SIGABRT (std::terminate)
Aborted == 134

NoSample == [pre |-> D_0_0, post |-> D_0_0, u |-> <<>>]

Message(msg, about) == [msg |-> msg, about |-> about]

InitProcess ==
    /\ pc = "start"
    /\ data = <<>>
    /\ sim_duration = D_0_0 /\ dt = D_0_0 /\ learning_rate = D_0_0
    /\ decay_rate = D_0_0 /\ region = <<>>
    /\ initial_weight = D_0_0 /\ weight = D_0_0
    /\ results = <<>> /\ t = D_0_0 /\ gen = <<>> /\ genPos = 0
    /\ sample = NoSample /\ steps = 0 /\ runs = 0
    /\ stderr = <<>> /\ stdout = <<>> /\ exitCode = Running
    /\ outFile = [state |-> "untouched", rows |-> 0, opens |-> 0]

InitConfig ==
    /\ prog = "config"
    /\ argv \in CfgArgvs
    /\ cfgFile \in CfgFiles
    /\ Len(argv) # 1 => cfgFile.entries = DefaultEntries
    /\ InitProcess

InitStandalone ==
    /\ prog = "standalone"
    /\ argv \in StdArgvs
    /\ cfgFile = [exists |-> FALSE, entries |-> <<>>]
    /\ InitProcess

Init == InitConfig \/ InitStandalone

(***************************************************************************)
(* cpp_simulation/synapse_sim.cpp: main                                    *)
(***************************************************************************)
\* the argument check, and the Config constructor (Config::parse)
CfgMain ==
    /\ prog = "config" /\ pc = "start"
    /\ IF Len(argv) + 1 # 2
       THEN /\ stderr' = Append(stderr, Message("usage", <<>>))
            /\ exitCode' = 1 /\ pc' = "exited" /\ data' = data
       ELSE IF ~cfgFile.exists
       THEN /\ stderr' = Append(stderr, Message("could not open config file", argv[1]))
            /\ exitCode' = 1 /\ pc' = "exited" /\ data' = data
       ELSE /\ data' = ConfigParse(FileContent(cfgFile.entries))
            /\ pc' = "load"
            /\ UNCHANGED <<stderr, exitCode>>
    /\ UNCHANGED <<env, params, weight, loopVars, stdout, outFile>>

\* the smallest member of a non-empty set of integers
MinOf(S) == CHOOSE i \in S : \A j \in S : i <= j

\* a getter's handler: the message, then exit(1)
CfgFail(get) ==
    /\ stderr' = Append(stderr, Message(get.err, get.key))
    /\ exitCode' = 1 /\ pc' = "exited"
    /\ UNCHANGED <<params, weight, stdout>>

\* main past its getters, whose outcomes are gets: the first that fails
\* ends the process; else the Simulation constructor and the announcement
CfgLoaded(gets) ==
    IF \E i \in 1..6 : ~gets[i].ok
    THEN CfgFail(gets[MinOf({i \in 1..6 : ~gets[i].ok})])
    ELSE /\ sim_duration' = gets[1].val
         /\ dt' = gets[2].val
         /\ learning_rate' = gets[3].val
         /\ decay_rate' = gets[4].val
         /\ initial_weight' = gets[5].val
         /\ weight' = gets[5].val
         /\ region' = gets[6].val
         /\ stdout' = Append(stdout, "Running simulation")
         /\ pc' = "run"
         /\ UNCHANGED <<stderr, exitCode>>

\* the five get_double calls and get_string, in order
CfgLoad ==
    /\ prog = "config" /\ pc = "load"
    /\ CfgLoaded([i \in 1..6 |-> IF i <= 5 THEN GetDouble(data, NumericKeys[i])
                                 ELSE GetString(data, RegionKey)])
    /\ UNCHANGED <<env, data, loopVars, outFile>>

(***************************************************************************)
(* Simulation (synapse.cpp)                                                *)
(***************************************************************************)
\* two faulty variants of the loop condition: t <= sim_duration and
\* t != sim_duration
LoopCondition_Le(time, duration) == FLe(time, duration)

LoopCondition_Ne(time, duration) == ~FEq(time, duration)

\* the condition of both loops: t < sim_duration
LoopCondition(time, duration) == FLt(time, duration)

\* a faulty variant of the entry of run: the results of earlier runs are
\* dropped
RunEntry_Clear ==
    /\ gen' \in Tapes
    /\ genPos' = 0
    /\ t' = D_0_0
    /\ runs' = runs + 1
    /\ pc' = "loop"
    /\ results' = <<>>
    /\ UNCHANGED <<env, data, params, weight, sample, steps, io>>

\* Simulation::run up to the loop: a fresh generator, t = 0
RunEntry ==
    /\ gen' \in Tapes
    /\ genPos' = 0
    /\ t' = D_0_0
    /\ runs' = runs + 1
    /\ pc' = "loop"
    /\ UNCHANGED <<env, data, params, weight, results, sample, steps, io>>

SimRun == prog = "config" /\ pc = "run" /\ RunEntry

\* a faulty variant of the loop body: t is advanced before the row is built
SimRecord_TimeAfter(a, w) ==
    /\ sample' = a
    /\ genPos' = genPos + Len(a.u)
    /\ weight' = w
    /\ results' = Append(results,
           [time |-> FAdd(t, dt), pre_activity |-> a.pre, post_activity |-> a.post,
            synaptic_weight |-> w, region |-> region])
    /\ t' = FAdd(t, dt)
    /\ steps' = steps + 1

\* the body of the loop of Simulation::run for the sample a and the weight
\* w that synapse.update leaves: the row appended, then t += dt
SimRecord(a, w) ==
    /\ sample' = a
    /\ genPos' = genPos + Len(a.u)
    /\ weight' = w
    /\ results' = Append(results,
           [time |-> t, pre_activity |-> a.pre, post_activity |-> a.post,
            synaptic_weight |-> w, region |-> region])
    /\ t' = FAdd(t, dt)
    /\ steps' = steps + 1

SimUpdate(a) ==
    SimRecord(a, Synapse_update(weight, a.pre, a.post, learning_rate, decay_rate, dt))

\* one iteration of the loop of Simulation::run
SimStep ==
    /\ prog \in {"config", "client"} /\ pc = "loop"
    /\ LoopCondition(t, sim_duration)
    /\ Len(results) < MaxRows
    /\ SimUpdate(GenerateActivity(gen, genPos))
    /\ UNCHANGED <<env, pc, data, params, gen, runs, io>>

\* the loop condition fails: run returns, and its generator is destroyed
SimExit ==
    /\ prog \in {"config", "client"} /\ pc = "loop"
    /\ ~LoopCondition(t, sim_duration)
    /\ pc' = IF prog = "client" THEN "idle" ELSE "save"
    /\ gen' = <<>> /\ genPos' = 0 /\ sample' = NoSample
    /\ UNCHANGED <<env, data, params, weight, results, t, steps, runs, io>>

\* Simulation::save_results, given whether the file opens: the file and
\* what goes to std::cerr
SaveResults(canOpen) ==
    IF canOpen
    THEN /\ outFile' = [state |-> "written", rows |-> Len(results),
                        opens |-> outFile.opens + 1]
         /\ stderr' = stderr
    ELSE /\ outFile' = [outFile EXCEPT !.state = "failed", !.opens = @ + 1]
         /\ stderr' = Append(stderr, Message("could not open output file", region))

\* main: sim.save_results(output_file), the final announcement, return 0
CfgSave ==
    /\ prog = "config" /\ pc = "save"
    /\ \E canOpen \in BOOLEAN : SaveResults(canOpen)
    /\ stdout' = Append(stdout, "finished. Data saved")
    /\ exitCode' = 0
    /\ pc' = "exited"
    /\ UNCHANGED <<env, data, params, weight, loopVars>>

(***************************************************************************)
(* synapse_sim.cpp: the standalone main                                    *)
(***************************************************************************)
\* main from the generator's set-up to the loop's initialisation
StdBegin(rate, decay, duration) ==
    /\ learning_rate' = rate /\ decay_rate' = decay /\ sim_duration' = duration
    /\ dt' = D_0_01
    /\ initial_weight' = D_0_5 /\ weight' = D_0_5
    /\ gen' \in Tapes /\ genPos' = 0
    /\ t' = D_0_0
    /\ runs' = runs + 1
    /\ pc' = "loop"
    /\ UNCHANGED <<region, results, sample, steps, io>>

\* std::stod threw, with outcome r: std::invalid_argument is caught, and
\* std::out_of_range, which no handler catches, ends in std::terminate
StdThrow(r) ==
    /\ IF r.status = "invalid_argument"
       THEN /\ stderr' = Append(stderr, Message("invalid argument", <<>>))
            /\ exitCode' = 1
       ELSE /\ stderr' = Append(stderr, Message("terminate", <<>>))
            /\ exitCode' = Aborted
    /\ pc' = "exited"
    /\ UNCHANGED <<params, weight, loopVars, stdout, outFile>>

\* the try block, gets the outcomes of its three std::stod calls in order
StdParsed(gets) ==
    IF \E i \in 1..3 : gets[i].status # "ok"
    THEN StdThrow(gets[MinOf({i \in 1..3 : gets[i].status # "ok"})])
    ELSE StdBegin(gets[1].val, gets[2].val, gets[3].val)

StdMain ==
    /\ prog = "standalone" /\ pc = "start"
    /\ IF Len(argv) + 1 # 1 /\ Len(argv) + 1 # 4
       THEN /\ stderr' = Append(stderr, Message("usage", <<>>))
            /\ exitCode' = 1 /\ pc' = "exited"
            /\ UNCHANGED <<params, weight, loopVars, stdout, outFile>>
       ELSE IF Len(argv) + 1 = 4
       THEN StdParsed([i \in 1..3 |-> Stod(argv[i])])
       ELSE StdBegin(D_0_5, D_0_1, D_10_0)
    /\ UNCHANGED <<env, data>>

\* the body of main's loop for the sample a and the clamped weight w
StdRecord(a, w) ==
    /\ sample' = a
    /\ genPos' = genPos + Len(a.u)
    /\ weight' = w
    /\ results' = Append(results,
           [time |-> t, pre_activity |-> a.pre, post_activity |-> a.post,
            synaptic_weight |-> w])
    /\ t' = FAdd(t, dt)
    /\ steps' = steps + 1

StdUpdate(a) ==
    StdRecord(a, Main_update(weight, a.pre, a.post, learning_rate, decay_rate, dt))

\* one iteration of main's loop
StdStep ==
    /\ prog = "standalone" /\ pc = "loop"
    /\ LoopCondition(t, sim_duration)
    /\ Len(results) < MaxRows
    /\ StdUpdate(GenerateActivity(gen, genPos))
    /\ UNCHANGED <<env, pc, data, params, gen, runs, io>>

\* the loop condition fails
StdExit ==
    /\ prog = "standalone" /\ pc = "loop"
    /\ ~LoopCondition(t, sim_duration)
    /\ pc' = "save"
    /\ UNCHANGED <<env, data, params, weight, loopVars, io>>

\* main from the opening of the output file on
StdSave ==
    /\ prog = "standalone" /\ pc = "save"
    /\ \E canOpen \in BOOLEAN :
          IF canOpen
          THEN /\ outFile' = [state |-> "written", rows |-> Len(results),
                              opens |-> outFile.opens + 1]
               /\ stdout' = Append(stdout, "finished. Data saved")
               /\ exitCode' = 0
               /\ stderr' = stderr
          ELSE /\ outFile' = [outFile EXCEPT !.state = "failed", !.opens = @ + 1]
               /\ stderr' = Append(stderr, Message("could not open output file", <<>>))
               /\ exitCode' = 1
               /\ stdout' = stdout
    /\ pc' = "exited"
    /\ UNCHANGED <<env, data, params, weight, loopVars>>

Next ==
    \/ CfgMain \/ CfgLoad \/ SimRun \/ SimStep \/ SimExit \/ CfgSave
    \/ StdMain \/ StdStep \/ StdExit \/ StdSave

Spec == Init /\ [][Next]_vars

(***************************************************************************)
(* Class Simulation under any caller: once constructed, run() and          *)
(* save_results() are called in any order, any number of times.            *)
(***************************************************************************)
ApiTimes == { <<D_0_5, Lit(T_0_25)>>, <<Lit(T_0_25), Lit(T_0_25)>>, <<D_0_0, D_0_1>> }

ApiRules == { <<D_0_5, D_0_1, D_0_5>> }

InitApi ==
    /\ prog = "client"
    /\ argv = <<>>
    /\ cfgFile = [exists |-> FALSE, entries |-> <<>>]
    /\ pc = "idle"
    /\ data = <<>>
    /\ \E tc \in ApiTimes, rc \in ApiRules :
          /\ sim_duration = tc[1] /\ dt = tc[2]
          /\ learning_rate = rc[1] /\ decay_rate = rc[2]
          /\ initial_weight = rc[3] /\ weight = rc[3]
    /\ region = <<"c", "t", "x">>
    /\ results = <<>> /\ t = D_0_0 /\ gen = <<>> /\ genPos = 0
    /\ sample = NoSample /\ steps = 0 /\ runs = 0
    /\ stderr = <<>> /\ stdout = <<>> /\ exitCode = Running
    /\ outFile = [state |-> "untouched", rows |-> 0, opens |-> 0]

\* sim.run()
ApiRun == prog = "client" /\ pc = "idle" /\ runs < MaxRuns /\ RunEntry

\* sim.save_results(filepath)
ApiSave ==
    /\ prog = "client" /\ pc = "idle"
    /\ outFile.opens < MaxSaves
    /\ \E canOpen \in BOOLEAN : SaveResults(canOpen)
    /\ UNCHANGED <<env, pc, data, params, weight, loopVars, stdout, exitCode>>

NextApi == ApiRun \/ SimStep \/ SimExit \/ ApiSave

SpecApi == InitApi /\ [][NextApi]_vars

\* A process keeps running until it ends.  Proceed is a step of Next told
\* by the control location and the step counter alone: every step of Next
\* changes pc or steps, so under [Next]_vars a step is a Proceed step
\* exactly when it is a Next step that changes the state, and Proceed is
\* enabled exactly when Next is.
Proceed ==
    \/ /\ pc \in {"start", "load", "run", "save"}
       /\ pc' \in {"load", "run", "loop", "save", "exited"} /\ pc' # pc
       /\ steps' = steps
    \/ /\ pc = "loop" /\ LoopCondition(t, sim_duration) /\ Len(results) < MaxRows
       /\ pc' = pc /\ steps' = steps + 1
    \/ /\ pc = "loop" /\ ~LoopCondition(t, sim_duration)
       /\ pc' = "save" /\ steps' = steps

SpecLive == Spec /\ WF_<<pc, steps>>(Proceed)

(***************************************************************************)
(* Properties.                                                             *)
(***************************************************************************)
InUnitInterval(w) == FLe(D_0_0, w) /\ FLe(w, D_1_0)

\* the weight before step i + 1: the initial weight, then the rows' weights
WeightAt(i) == IF i = 0 THEN initial_weight ELSE results[i].synaptic_weight

\* every weight an update has stored
StoredWeights ==
    { results[i].synaptic_weight : i \in 1..Len(results) }
    \cup (IF steps > 0 THEN {weight} ELSE {})

StepTaken == steps' = steps + 1

Started == runs >= 1

\* -decay_rate * w + learning_rate * pre * post, then the whole of the
\* update rule, written from the formula rather than from the code
RateOf(w, pre, post, eta, lambda) ==
    FAdd(FNeg(FMul(lambda, w)), FMul(FMul(eta, pre), post))

ClampSpec(x) ==
    IF FLt(x, D_0_0) THEN D_0_0 ELSE IF FGt(x, D_1_0) THEN D_1_0 ELSE x

ExpectedWeight(w, pre, post, eta, lambda, step) ==
    ClampSpec(FAdd(w, FMul(RateOf(w, pre, post, eta, lambda), step)))

Binary == {D_0_0, D_1_0}

D_0_5045 == Lit(<<"0", ".", "5", "0", "4", "5">>)

\* C1 as stated: every weight an update has stored, and so every weight in
\* a row, lies in [0.0, 1.0], whatever the parameters are.
C1_Claim == \A w \in StoredWeights : InUnitInterval(w)

\* C1, amended: every weight an update has stored is in [0.0, 1.0] or is
\* NaN, and an update whose operands (the weight before it, dt and the rate
\* -decay_rate * w + learning_rate * pre * post) are all finite stores a
\* weight in [0.0, 1.0].
C1_Theorem ==
    /\ [](\A w \in StoredWeights : IsNaN(w) \/ InUnitInterval(w))
    /\ [][(/\ StepTaken /\ IsFinite(weight) /\ IsFinite(dt)
            /\ IsFinite(RateOf(weight, sample'.pre, sample'.post,
                               learning_rate, decay_rate)))
           => InUnitInterval(weight')]_vars

\* an initial weight above 1 has been capped by the first update
C1_Witness ==
    /\ steps > 0 /\ FGt(initial_weight, D_1_0)
    /\ results[1].synaptic_weight = D_1_0 /\ weight = D_1_0

\* C2: one update stores exactly clamp(w + (-decay_rate * w +
\* learning_rate * pre * post) * dt, 0.0, 1.0) for the step's own sample,
\* with pre and post in {0, 1}; the two examples give 0.5045 and 0.0.
C2_Theorem ==
    /\ Synapse_update(D_0_5, D_1_0, D_1_0, D_0_5, D_0_1, D_0_01) = D_0_5045
    /\ Main_update(D_0_5, D_1_0, D_1_0, D_0_5, D_0_1, D_0_01) = D_0_5045
    /\ \A pre \in Binary, post \in Binary :
          /\ Synapse_update(D_1_0, pre, post, D_0_0, D_1_0, D_1_0) = D_0_0
          /\ Main_update(D_1_0, pre, post, D_0_0, D_1_0, D_1_0) = D_0_0
    /\ [][StepTaken =>
            /\ sample'.pre \in Binary /\ sample'.post \in Binary
            /\ weight' = ExpectedWeight(weight, sample'.pre, sample'.post,
                                        learning_rate, decay_rate, dt)
            /\ results'[Len(results')].synaptic_weight = weight']_vars

\* the first example, in a run: one step from 0.5 with pre = post = 1
C2_Witness ==
    /\ steps = 1 /\ initial_weight = D_0_5
    /\ learning_rate = D_0_5 /\ decay_rate = D_0_1 /\ dt = D_0_01
    /\ sample.pre = D_1_0 /\ sample.post = D_1_0
    /\ weight = D_0_5045

\* C3 as stated: with learning_rate = 0 and dt > 0 the weights, from the
\* initial weight on, never increase when decay_rate > 0 and all equal the
\* initial weight when decay_rate = 0.
C3_Claim ==
    (Started /\ FEq(learning_rate, D_0_0) /\ FGt(dt, D_0_0)) =>
        /\ FGt(decay_rate, D_0_0) =>
              \A i \in 1..Len(results) : FLe(WeightAt(i), WeightAt(i - 1))
        /\ FEq(decay_rate, D_0_0) =>
              \A i \in 1..Len(results) : FEq(WeightAt(i), initial_weight)

\* C3, amended: the same, for an initial weight in [0.0, 1.0], a finite
\* decay_rate and a finite dt > 0.
C3_Theorem ==
    (/\ Started /\ FEq(learning_rate, D_0_0)
     /\ FGt(dt, D_0_0) /\ IsFinite(dt) /\ IsFinite(decay_rate)
     /\ InUnitInterval(initial_weight)) =>
        /\ FGt(decay_rate, D_0_0) =>
              \A i \in 1..Len(results) : FLe(WeightAt(i), WeightAt(i - 1))
        /\ FEq(decay_rate, D_0_0) =>
              \A i \in 1..Len(results) : FEq(WeightAt(i), initial_weight)

\* two steps of pure decay, each strictly below the weight before it
C3_Witness ==
    /\ FEq(learning_rate, D_0_0) /\ FGt(decay_rate, D_0_0) /\ FGt(dt, D_0_0)
    /\ InUnitInterval(initial_weight)
    /\ Len(results) >= 2
    /\ FLt(WeightAt(1), WeightAt(0)) /\ FLt(WeightAt(2), WeightAt(1))

\* the sample of the last step, when there is one
Sampled == sample.u # <<>>

\* the sample's j-th value is the j-th of the last Len(sample.u) values drawn
DrawnInOrder ==
    \A j \in 1..Len(sample.u) :
        sample.u[j] = Draw(gen, genPos - Len(sample.u) + j - 1)

Fired(x) == x = D_1_0

\* C4 as stated: a step's sample comes from exactly two draws, u1 then u2:
\* pre = 1 iff u1 > 0.7, and post = 1 iff u2 > 0.3 when pre = 1, iff
\* u2 > 0.9 when pre = 0.
C4_Claim ==
    Sampled =>
        /\ Len(sample.u) = 2 /\ DrawnInOrder
        /\ Fired(sample.pre) <=> FGt(sample.u[1], D_0_7)
        /\ Fired(sample.post) <=>
              FGt(sample.u[2], IF Fired(sample.pre) THEN D_0_3 ELSE D_0_9)

\* C4, amended: a step's sample comes from two or three draws taken in
\* order: pre = 1 iff u1 > 0.7; when pre = 0 there are two draws and
\* post = 1 iff u2 > 0.9; when pre = 1 and u2 > 0.3 there are two draws and
\* post = 1; when pre = 1 and u2 <= 0.3 a third value is drawn and
\* post = 1 iff u3 > 0.9.
C4_Theorem ==
    Sampled =>
        /\ Len(sample.u) \in {2, 3} /\ DrawnInOrder
        /\ sample.pre \in Binary /\ sample.post \in Binary
        /\ Fired(sample.pre) <=> FGt(sample.u[1], D_0_7)
        /\ ~Fired(sample.pre) =>
              /\ Len(sample.u) = 2
              /\ Fired(sample.post) <=> FGt(sample.u[2], D_0_9)
        /\ (Fired(sample.pre) /\ FGt(sample.u[2], D_0_3)) =>
              /\ Len(sample.u) = 2
              /\ Fired(sample.post)
        /\ (Fired(sample.pre) /\ ~FGt(sample.u[2], D_0_3)) =>
              /\ Len(sample.u) = 3
              /\ Fired(sample.post) <=> FGt(sample.u[3], D_0_9)

\* pre fired, the second value was not above 0.3, and the third value made
\* post fire
C4_Witness ==
    /\ Sampled /\ Len(sample.u) = 3
    /\ Fired(sample.pre) /\ ~FGt(sample.u[2], D_0_3) /\ Fired(sample.post)

\* how many times the loop body runs: the number of additions of step to
\* time after which time < duration is false (MaxRows at most)
RECURSIVE StepsNeeded(_, _, _, _)
StepsNeeded(time, duration, step, k) ==
    IF k = MaxRows \/ ~FLt(time, duration) THEN k
    ELSE StepsNeeded(FAdd(time, step), duration, step, k + 1)

\* one run of the loop is over
OneRunCompleted == runs = 1 /\ pc \in {"save", "exited"}

\* C5 as stated: for duration > 0 and dt > 0 a completed run has exactly
\* floor(duration / dt) rows, and 10 rows for duration 1.0 and dt 0.1.
C5_Claim ==
    (/\ OneRunCompleted
     /\ FGt(sim_duration, D_0_0) /\ IsFinite(sim_duration)
     /\ FGt(dt, D_0_0) /\ IsFinite(dt)) =>
        /\ Len(results) = FloorInt(FDiv(sim_duration, dt))
        /\ (sim_duration = D_1_0 /\ dt = D_0_1) => Len(results) = 10

\* C5, amended: a completed run has as many rows as additions of dt it
\* takes, starting from 0, for the rounded sum to be no longer below
\* duration; for duration 1.0 and dt 0.1 that is 11 rows (ten additions of
\* 0.1 give 0.9999999999999999), for 0.3 and 0.1 it is 3, for 0.5 and 0.25
\* it is 2.
C5_Theorem ==
    OneRunCompleted =>
        /\ Len(results) = StepsNeeded(D_0_0, sim_duration, dt, 0)
        /\ steps = Len(results)
        /\ (sim_duration = D_1_0 /\ dt = D_0_1) => Len(results) = 11
        /\ (sim_duration = D_0_3 /\ dt = D_0_1) => Len(results) = 3
        /\ (sim_duration = D_0_5 /\ dt = Lit(T_0_25)) => Len(results) = 2

\* the run of duration 1.0 with dt 0.1 is over, with its eleventh row at
\* a time below 1.0
C5_Witness ==
    /\ OneRunCompleted /\ sim_duration = D_1_0 /\ dt = D_0_1
    /\ Len(results) = 11 /\ FLt(results[11].time, D_1_0)

OpenFailureReported ==
    \E i \in 1..Len(stderr) : stderr[i].msg = "could not open output file"

SuccessAnnounced ==
    \E i \in 1..Len(stdout) : stdout[i] = "finished. Data saved"

\* C6: a process whose output file could not be opened has reported it on
\* standard error, ends with a non-zero exit code and has not announced
\* success.
C6_Claim ==
    (pc = "exited" /\ outFile.state = "failed") =>
        /\ OpenFailureReported
        /\ exitCode # 0
        /\ ~SuccessAnnounced

\* the text is not wholly a number for std::stod
Malformed(text) == Stod(text).status # "ok" \/ Stod(text).end # Len(text)

EntryKeys == { cfgFile.entries[i][1] : i \in 1..Len(cfgFile.entries) }

RequiredKeys ==
    {SimDurationKey, DtKey, LearningRateKey, DecayRateKey, InitialWeightKey, RegionKey}

\* an input error of the configuration-driven main, of the standalone main
CfgInputError ==
    \/ Len(argv) # 1
    \/ ~cfgFile.exists
    \/ \E key \in RequiredKeys : key \notin EntryKeys
    \/ \E i \in 1..Len(cfgFile.entries) :
          /\ cfgFile.entries[i][1] # RegionKey
          /\ Malformed(cfgFile.entries[i][2])

StdInputError ==
    \/ Len(argv) \notin {0, 3}
    \/ Len(argv) = 3 /\ \E i \in 1..3 : Malformed(argv[i])

InputError == IF prog = "config" THEN CfgInputError ELSE StdInputError

\* C7: on an input error the process runs no step, produces no row, opens
\* no output file, and ends with exit code 1.
C7_Claim ==
    InputError =>
        /\ runs = 0 /\ steps = 0 /\ results = <<>>
        /\ outFile.opens = 0
        /\ pc = "exited" => exitCode = 1

\* the weight the step's update leaves, by entry point
UpdatedWeight(a) ==
    IF prog = "standalone"
    THEN Main_update(weight, a.pre, a.post, learning_rate, decay_rate, dt)
    ELSE Synapse_update(weight, a.pre, a.post, learning_rate, decay_rate, dt)

\* after k iterations: k rows, row i + 1 at the time i additions of dt
\* reach, the loop variable one addition further, the last row's weight the
\* current one
C8_Inv ==
    /\ Len(results) = steps
    /\ \A i \in 1..Len(results) :
          results[i].time = IF i = 1 THEN D_0_0 ELSE FAdd(results[i - 1].time, dt)
    /\ steps > 0 =>
          /\ results[steps].synaptic_weight = weight
          /\ pc = "loop" => t = FAdd(results[steps].time, dt)

\* one iteration: the sample is generated from the stream, the weight is
\* updated with that sample, and one row is appended that holds t as it
\* was, the sample and the updated weight; only then is t advanced
C8_Step ==
    /\ StepTaken =>
          /\ sample' = GenerateActivity(gen, genPos)
          /\ genPos' = genPos + Len(sample'.u)
          /\ weight' = UpdatedWeight(sample')
          /\ Len(results') = Len(results) + 1
          /\ SubSeq(results', 1, Len(results)) = results
          /\ results'[Len(results')].time = t
          /\ results'[Len(results')].pre_activity = sample'.pre
          /\ results'[Len(results')].post_activity = sample'.post
          /\ results'[Len(results')].synaptic_weight = weight'
          /\ t' = FAdd(t, dt)
    /\ (results' # results \/ (runs > 0 /\ weight' # weight) \/ genPos' > genPos)
          => StepTaken

\* C8: every iteration generates one sample, updates the weight with it
\* and appends one row holding the time before it is advanced, that sample
\* and the updated weight; so after k iterations there are k rows, row i
\* (0-based) is at i accumulated additions of dt, and the last row's weight
\* is the current weight.
C8_Theorem == []C8_Inv /\ [][C8_Step]_vars

\* three iterations with dt > 0: three rows, the third at dt + dt
C8_Witness ==
    /\ steps = 3 /\ Len(results) = 3 /\ FGt(dt, D_0_0)
    /\ results[3].time = FAdd(FAdd(D_0_0, dt), dt)
    /\ results[3].synaptic_weight = weight
    /\ results[3].synaptic_weight # results[2].synaptic_weight

\* C9 as stated (its chronology): with dt > 0, each row's time is strictly
\* greater than the time of the row before it, whatever calls were made.
C9_Claim ==
    FGt(dt, D_0_0) =>
        \A i \in 2..Len(results) : FLt(results[i - 1].time, results[i].time)

\* C9, amended: the result sequence is append-only under run() and
\* save_results(), which leaves it alone; with dt > 0 each row's time is
\* strictly greater than the time of the row before it, except for the
\* first row of a later run, whose time is 0 again; the rows of the first
\* run are strictly chronological.
C9_Theorem ==
    /\ [][/\ Len(results') >= Len(results)
          /\ SubSeq(results', 1, Len(results)) = results
          /\ outFile' # outFile => results' = results]_vars
    /\ [](FGt(dt, D_0_0) =>
            /\ \A i \in 2..Len(results) :
                  \/ FLt(results[i - 1].time, results[i].time)
                  \/ results[i].time = D_0_0
            /\ runs <= 1 =>
                  \A i \in 2..Len(results) :
                      FLt(results[i - 1].time, results[i].time))

\* a second run has appended its rows after the two rows of the first
C9_Witness ==
    /\ prog = "client" /\ runs = 2 /\ pc = "idle" /\ FGt(dt, D_0_0)
    /\ Len(results) = 4
    /\ results[3].time = D_0_0 /\ FLt(results[3].time, results[2].time)

RowsBelowDuration ==
    \A i \in 1..Len(results) : FLt(results[i].time, sim_duration)

LoopIsLeft ==
    \/ ~FGt(sim_duration, D_0_0)
    \/ IsNaN(dt)
    \/ FGt(dt, D_0_0) /\ IsFinite(sim_duration)

=============================================================================
